---------------------------- MODULE Spec2Model ----------------------------
(***************************************************************************)
(* Model of the patient / medication-dispense service:                     *)
(*   src/app/controlador/PatientCrud.py  (repository functions)            *)
(*   src/app/app.py                      (HTTP route handlers)             *)
(* The two MongoDB collections are sequences in natural (insertion) order. *)
(* Every repository function and every route handler is one action; the   *)
(* registration also runs as two steps, existence check and insert, in    *)
(* concurrent workers.                                                     *)
(***************************************************************************)
EXTENDS Integers, Sequences, FiniteSets, TLC

\* ---------------------------------------------------------------- bounds
MaxPatients == 2      \* documents the patients collection may hold
MaxMeds     == 3      \* documents the medications collection may hold
MaxValidated == 1     \* the same, where the dispense payloads vary
MaxApiMeds  == 2      \* the same, behind the HTTP routes
MaxTime     == 2      \* last reading of the wall clock
MaxWorkers  == 2      \* workers serving registrations at once (4 in app.py)
MaxConcurrentMeds == 2 \* dispenses stored by concurrent registrations
OidLen      == 2      \* hex digits of an ObjectId string (24 in bson)

\* ------------------------------------------------------------ characters
\* A string that matters character by character is a sequence of character
\* codes: 0..9 are '0'..'9', 10..15 are 'a'..'f', 16..21 are 'A'..'F',
\* 22 is a letter that is no hex digit, 23 is '.'.
IsHexChar(c) == c \in 0..21
HexVal(c) == IF c <= 15 THEN c ELSE c - 6
NonHexChar == 22
DotChar == 23

RECURSIVE Pow(_, _)
Pow(b, e) == IF e = 0 THEN 1 ELSE b * Pow(b, e - 1)

\* str(ObjectId): fixed-width lower-case hex.
OidStr(n) == [i \in 1..OidLen |-> (n \div Pow(16, OidLen - i)) % 16]

\* ObjectId(s): raises InvalidId unless s is OidLen hex digits.
OidWellFormed(s) == Len(s) = OidLen /\ \A i \in 1..Len(s) : IsHexChar(s[i])

RECURSIVE HexToInt(_)
HexToInt(s) ==
    IF s = <<>> THEN 0
    ELSE 16 * HexToInt(SubSeq(s, 1, Len(s) - 1)) + HexVal(s[Len(s)])

ObjectId(s) == HexToInt(s)

\* datetime.isoformat(): seconds zero-padded to two digits; the fraction is
\* omitted when it is zero.  The clock counts half seconds.
IsoFormat(t) ==
    LET sec  == t \div 2
        frac == t % 2
    IN  <<sec \div 10, sec % 10>> \o (IF frac = 0 THEN <<>> ELSE <<DotChar, 5>>)

\* The FHIR model parses the ISO string of a dateTime element back into a
\* datetime (the listing calls .isoformat() on the stored value).
FromIsoFormat(s) ==
    2 * (10 * s[1] + s[2]) + (IF Len(s) > 2 THEN 1 ELSE 0)

\* ---------------------------------------------------------------- inputs
None == [kind |-> "None"]

Ident(sys, val) == [system |-> sys, value |-> val]
Name(given, family) == [given |-> <<given>>, family |-> family]

\* Patient payloads of POST /patient.  An absent list-valued element is <<>>;
\* wellTyped = FALSE is a payload the FHIR model rejects.
PatientPayloads ==
    { [identifier |-> <<Ident("doc", "123")>>, name |-> <<Name("Ana", "Diaz")>>,  wellTyped |-> TRUE],
      [identifier |-> <<Ident("doc", "123")>>, name |-> <<Name("Luis", "Mora")>>, wellTyped |-> TRUE],
      [identifier |-> <<Ident("doc", "456")>>, name |-> <<>>,                     wellTyped |-> TRUE],
      [identifier |-> <<Ident("doc", "456")>>, name |-> <<Name("Ana", "Diaz")>>,  wellTyped |-> FALSE] }

\* Patients with two identifiers, one identifier and none.
IdentifierPayloads ==
    { [identifier |-> <<Ident("doc", "123"), Ident("pas", "456")>>,
       name |-> <<Name("Ana", "Diaz")>>, wellTyped |-> TRUE],
      [identifier |-> <<Ident("pas", "123")>>, name |-> <<Name("Luis", "Mora")>>, wellTyped |-> TRUE],
      [identifier |-> <<>>, name |-> <<Name("Eva", "Gil")>>, wellTyped |-> TRUE] }

\* The patients the dispense specifications register.
DispensePatientPayloads ==
    { [identifier |-> <<Ident("doc", "123")>>, name |-> <<Name("Ana", "Diaz")>>, wellTyped |-> TRUE] }

Systems == {"doc", "pas"}
Values  == {"123", "456"}

\* A JSON number is [num |-> n]; a JSON string in a numeric position is
\* [text |-> s].
Num(n) == [num |-> n]
Text(s) == [text |-> s]

\* Dispense payloads handed to the repository: Python dicts, a record whose
\* DOMAIN is the keys the dict has.
FullMedPayload ==
    [medications |-> "amox", quantity |-> Num(2), daysSupply |-> Num(5), dosage |-> "1/day"]

MedPayloads ==
    { FullMedPayload,
      [medications |-> "amox", quantity |-> Num(2), daysSupply |-> Num(5)],
      [medications |-> "amox", quantity |-> Text("abc"), daysSupply |-> Num(5), dosage |-> "1/day"] }

\* Request bodies of POST /patient and POST /patient/{id}/medications.
ApiPatientBodies ==
    DispensePatientPayloads \cup
    { [identifier |-> <<Ident("doc", "456")>>, name |-> <<Name("Ana", "Diaz")>>, wellTyped |-> FALSE] }

ApiMedBodies ==
    { [medication |-> "amox", quantity |-> Num(2), daysSupply |-> Num(5), dosage |-> "1/day",
       performer |-> "Dr. Ruiz", notes |-> "with food"],
      [medication |-> "amox", quantity |-> Num(2), daysSupply |-> Num(5),
       performer |-> "Dr. Ruiz", notes |-> "with food"] }

\* The ObjectId of the n-th patient inserted: ids carry hex letters, and
\* str() prints them in lower case ('a1', 'a2', ...).
PatientOid(n) == 10 * Pow(16, OidLen - 1) + n

\* Path parameters: the ids of the patients, one id past them, the id of
\* the first dispense,
\* a string that is too short and a string with a non-hex character.
IdInputs ==
    { OidStr(n) : n \in { PatientOid(k) : k \in 1..(MaxPatients + 1) }
                          \cup {Pow(16, OidLen - 1) + 1} }
      \cup { [i \in 1..(OidLen - 1) |-> 1], [i \in 1..OidLen |-> NonHexChar] }

\* The same id typed with upper-case hex letters.
UpperHex(s) == [i \in DOMAIN s |-> IF s[i] \in 10..15 THEN s[i] + 6 ELSE s[i]]

\* Path parameters in both cases: the ids of the patients as str() prints
\* them and as a client may type them, and one id past them.
CaseIdInputs ==
    LET printed == { OidStr(PatientOid(k)) : k \in 1..(MaxPatients + 1) }
    IN  printed \cup { UpperHex(id) : id \in printed }

\* A second complete dispense payload.
OtherMedPayload ==
    [medications |-> "ibu", quantity |-> Num(1), daysSupply |-> Num(3), dosage |-> "2/day"]

\* Dispense payloads that lack one of medications, quantity, daysSupply.
RequiredFieldPayloads ==
    { FullMedPayload,
      [quantity |-> Num(2), daysSupply |-> Num(5), dosage |-> "1/day"],
      [medications |-> "amox", daysSupply |-> Num(5), dosage |-> "1/day"],
      [medications |-> "amox", quantity |-> Num(2), dosage |-> "1/day"] }

\* The worker processes uvicorn starts.
Workers == 1..MaxWorkers

VARIABLES patients, medications, now, last, inflight
vars == <<patients, medications, now, last, inflight>>


\* ------------------------------------------------------------ collections
\* dict.get(key, default)
Get(d, key, default) == IF key \in DOMAIN d THEN d[key] ELSE default

\* Mutant: the filter is dropped, find_one returns the first document.
FindOneById_NoFilter(coll, oid) == IF coll = <<>> THEN 0 ELSE 1

\* collection.find_one({"_id": oid}): index of the first match, 0 for None.
FindOneById(coll, oid) ==
    LET hits == { i \in DOMAIN coll : coll[i]._id = oid }
    IN  IF hits = {} THEN 0 ELSE CHOOSE i \in hits : \A j \in hits : i <= j

\* Mutant: the two conditions are dotted paths ("identifier.system",
\* "identifier.value"), which different elements may satisfy.
ElemMatch_AcrossElements(doc, sys, val) ==
    /\ \E k \in DOMAIN doc.identifier : doc.identifier[k].system = sys
    /\ \E k \in DOMAIN doc.identifier : doc.identifier[k].value = val

\* {"identifier": {"$elemMatch": {"system": sys, "value": val}}}: one element
\* of the identifier array matches both conditions.
ElemMatch(doc, sys, val) ==
    \E k \in DOMAIN doc.identifier :
        doc.identifier[k].system = sys /\ doc.identifier[k].value = val

FindOneByIdentifier(coll, sys, val) ==
    LET hits == { i \in DOMAIN coll : ElemMatch(coll[i], sys, val) }
    IN  IF hits = {} THEN 0 ELSE CHOOSE i \in hits : \A j \in hits : i <= j

\* patients["_id"] = str(patients["_id"])
WithStrId(doc) == [doc EXCEPT !._id = OidStr(@)]

\* f"patients/{patients_id}"
SubjectReference(id) == <<"patients/", id>>

\* ---------------------------------------------------- FHIR model library
\* patients.model_validate: a FHIR Patient has no required element, so a
\* payload fails only when an element is ill-typed.
FhirPatientValid(data) == data.wellTyped

\* medicationsDispense.model_validate of the dict the repository builds:
\* status and subject are the elements it must carry.
FhirDispenseValid(d) == d.status # "" /\ d.subject.reference # <<>>

\* float(x): raises ValueError on a string that is no number.
IsNumeric(x) == "num" \in DOMAIN x
Float(x) == x.num

\* ----------------------------------------------------- PatientCrud.py
\* Mutant: find_one is called with an empty filter, so any well-formed id
\* finds the first stored patient.
GetpatientsById_AnyDocument(pats, id) ==
    IF ~OidWellFormed(id)
    THEN [status |-> "error: InvalidId", value |-> None]
    ELSE IF pats # <<>>
         THEN [status |-> "success", value |-> [kind |-> "doc", doc |-> WithStrId(pats[1])]]
         ELSE [status |-> "notFound", value |-> None]

GetpatientsById(pats, id) ==
    IF ~OidWellFormed(id)
    THEN [status |-> "error: InvalidId", value |-> None]
    ELSE LET i == FindOneById(pats, ObjectId(id))
         IN  IF i # 0
             THEN [status |-> "success", value |-> [kind |-> "doc", doc |-> WithStrId(pats[i])]]
             ELSE [status |-> "notFound", value |-> None]

\* Mutant: the document is inserted before it is validated, so a rejected
\* payload is reported as a failure and stored all the same.
Writepatients_InsertsFirst(pats, oid, t, data) ==
    LET doc == [_id |-> oid, identifier |-> data.identifier, name |-> data.name,
                createdAt |-> t, updatedAt |-> t]
    IN  IF ~FhirPatientValid(data)
        THEN [status |-> "errorValidating: ValidationError", value |-> None,
              patients |-> Append(pats, doc)]
        ELSE [status |-> "success", value |-> [kind |-> "id", id |-> OidStr(oid)],
              patients |-> Append(pats, doc)]

\* Mutant: a patient whose first identifier is already stored replaces the
\* stored document (replace_one with upsert) instead of being inserted.
Writepatients_Upserts(pats, oid, t, data) ==
    IF ~FhirPatientValid(data)
    THEN [status |-> "errorValidating: ValidationError", value |-> None, patients |-> pats]
    ELSE LET doc == [_id |-> oid, identifier |-> data.identifier, name |-> data.name,
                     createdAt |-> t, updatedAt |-> t]
             old == IF data.identifier = <<>> THEN 0
                    ELSE FindOneByIdentifier(pats, data.identifier[1].system,
                                             data.identifier[1].value)
         IN  IF old # 0
             THEN [status |-> "success",
                   value  |-> [kind |-> "id", id |-> OidStr(pats[old]._id)],
                   patients |-> [pats EXCEPT ![old] = [doc EXCEPT !._id = pats[old]._id]]]
             ELSE [status |-> "success", value |-> [kind |-> "id", id |-> OidStr(oid)],
                   patients |-> Append(pats, doc)]

\* Mutant: the dumped document loses its name element.
Writepatients_DropsName(pats, oid, t, data) ==
    IF ~FhirPatientValid(data)
    THEN [status |-> "errorValidating: ValidationError", value |-> None, patients |-> pats]
    ELSE [status   |-> "success",
          value    |-> [kind |-> "id", id |-> OidStr(oid)],
          patients |-> Append(pats, [_id |-> oid, identifier |-> data.identifier,
                                     name |-> <<>>, createdAt |-> t, updatedAt |-> t])]

Writepatients(pats, oid, t, data) ==
    IF ~FhirPatientValid(data)
    THEN [status |-> "errorValidating: ValidationError", value |-> None, patients |-> pats]
    ELSE LET doc == [_id        |-> oid,
                     identifier |-> data.identifier,
                     name       |-> data.name,
                     createdAt  |-> t,
                     updatedAt  |-> t]
         IN  [status   |-> "success",
              value    |-> [kind |-> "id", id |-> OidStr(oid)],
              patients |-> Append(pats, doc)]

GetpatientsByIdentifier(pats, sys, val) ==
    LET i == FindOneByIdentifier(pats, sys, val)
    IN  IF i # 0
        THEN [status |-> "success", value |-> [kind |-> "doc", doc |-> WithStrId(pats[i])]]
        ELSE [status |-> "notFound", value |-> None]

\* Mutant: the status is read from the payload, "completed" being only the
\* default.
BuildDispense_StatusFromPayload(p, id, t, data) ==
    [resourceType |-> "medicationsDispense",
     status       |-> Get(data, "status", "completed"),
     medicationsCodeableConcept |-> [text |-> Get(data, "medications", "")],
     subject      |-> [reference |-> SubjectReference(id),
                       display   |-> <<p.name[1].given[1], " ", p.name[1].family>>],
     whenHandedOver |-> FromIsoFormat(IsoFormat(t)),
     quantity     |-> [value |-> Float(Get(data, "quantity", Num(1))),
                       unit  |-> Get(data, "unit", "unit")],
     daysSupply   |-> [value |-> Float(Get(data, "daysSupply", Num(1))), unit |-> "days"],
     performer    |-> Get(data, "performer", "Unknown"),
     dosageInstruction |-> [text |-> Get(data, "dosage", "As prescribed")],
     note         |-> Get(data, "notes", ""),
     createdAt    |-> t,
     updatedAt    |-> t]

\* The dict literal of lines 69-115, evaluated top to bottom; p is the
\* patient document GetpatientsById returned.
BuildDispense(p, id, t, data) ==
    [resourceType |-> "medicationsDispense",
     status       |-> "completed",
     medicationsCodeableConcept |-> [text |-> Get(data, "medications", "")],
     subject      |-> [reference |-> SubjectReference(id),
                       display   |-> <<p.name[1].given[1], " ", p.name[1].family>>],
     whenHandedOver |-> FromIsoFormat(IsoFormat(t)),
     quantity     |-> [value |-> Float(Get(data, "quantity", Num(1))),
                       unit  |-> Get(data, "unit", "unit")],
     daysSupply   |-> [value |-> Float(Get(data, "daysSupply", Num(1))), unit |-> "days"],
     performer    |-> Get(data, "performer", "Unknown"),
     dosageInstruction |-> [text |-> Get(data, "dosage", "As prescribed")],
     note         |-> Get(data, "notes", ""),
     createdAt    |-> t,
     updatedAt    |-> t]

\* Mutant: the store keeps one dispense per subject (replace_one with
\* upsert on the reference), so a second registration overwrites the first.
RegisterFor_OnePerSubject(p, meds, oid, t, id, data) ==
    IF p.name = <<>> \/ p.name[1].given = <<>>
    THEN [status |-> "error: TypeError", value |-> None, medications |-> meds]
    ELSE IF ~IsNumeric(Get(data, "quantity", Num(1)))
            \/ ~IsNumeric(Get(data, "daysSupply", Num(1)))
    THEN [status |-> "error: ValueError", value |-> None, medications |-> meds]
    ELSE LET dispense == BuildDispense(p, id, t, data)
             same == { i \in DOMAIN meds : meds[i].subject.reference = SubjectReference(id) }
         IN  IF ~FhirDispenseValid(dispense)
             THEN [status |-> "error: ValidationError", value |-> None, medications |-> meds]
             ELSE IF same # {}
             THEN LET i == CHOOSE k \in same : TRUE
                  IN  [status |-> "success",
                       value  |-> [kind |-> "id", id |-> OidStr(meds[i]._id)],
                       medications |-> [meds EXCEPT ![i] = dispense @@ [_id |-> meds[i]._id]]]
             ELSE [status |-> "success",
                   value  |-> [kind |-> "id", id |-> OidStr(oid)],
                   medications |-> Append(meds, dispense @@ [_id |-> oid])]

\* Lines 68-125: what the function does once the patient p is found.
RegisterFor(p, meds, oid, t, id, data) ==
    IF p.name = <<>> \/ p.name[1].given = <<>>
    THEN [status |-> "error: TypeError", value |-> None, medications |-> meds]
    ELSE IF ~IsNumeric(Get(data, "quantity", Num(1)))
            \/ ~IsNumeric(Get(data, "daysSupply", Num(1)))
    THEN [status |-> "error: ValueError", value |-> None, medications |-> meds]
    ELSE LET dispense == BuildDispense(p, id, t, data)
         IN  IF ~FhirDispenseValid(dispense)
             THEN [status |-> "error: ValidationError", value |-> None, medications |-> meds]
             ELSE [status |-> "success",
                   value  |-> [kind |-> "id", id |-> OidStr(oid)],
                   medications |-> Append(meds, dispense @@ [_id |-> oid])]

\* Mutant: the guard tests for "notFound" only, so the error status of a
\* malformed id falls through to the subscripting of a None patient.
RegistermedicationsDispense_NotFoundOnly(pats, meds, oid, t, id, data) ==
    LET found == GetpatientsById(pats, id)
    IN  IF found.status = "notFound"
        THEN [status |-> "patientsNotFound", value |-> None, medications |-> meds]
        ELSE IF found.status # "success"
        THEN [status |-> "error: TypeError", value |-> None, medications |-> meds]
        ELSE RegisterFor(found.value.doc, meds, oid, t, id, data)

RegistermedicationsDispense(pats, meds, oid, t, id, data) ==
    LET found == GetpatientsById(pats, id)
    IN  IF found.status # "success"
        THEN [status |-> "patientsNotFound", value |-> None, medications |-> meds]
        ELSE RegisterFor(found.value.doc, meds, oid, t, id, data)

\* find({"subject.reference": ref}): the matching documents, natural order.
RECURSIVE FindBySubject(_, _)
FindBySubject(meds, ref) ==
    IF meds = <<>> THEN <<>>
    ELSE (IF Head(meds).subject.reference = ref THEN <<Head(meds)>> ELSE <<>>)
             \o FindBySubject(Tail(meds), ref)

Orderings(n) == { f \in [1..n -> 1..n] : \A i, j \in 1..n : f[i] = f[j] => i = j }

\* Mutant: the sort direction is 1 (ascending).
SortWhenHandedOver_Ascending(found) ==
    { [i \in 1..Len(found) |-> found[f[i]]] : f \in
        { g \in Orderings(Len(found)) :
            \A i, j \in 1..Len(found) :
                i < j => found[g[i]].whenHandedOver <= found[g[j]].whenHandedOver } }

\* .sort("whenHandedOver", -1): every arrangement of the cursor with the
\* keys non-increasing; the store leaves the order of equal keys open.
SortWhenHandedOver(found) ==
    { [i \in 1..Len(found) |-> found[f[i]]] : f \in
        { g \in Orderings(Len(found)) :
            \A i, j \in 1..Len(found) :
                i < j => found[g[i]].whenHandedOver >= found[g[j]].whenHandedOver } }

\* Lines 142-150: ids and dates become strings for the JSON response.
ForResponse(med) ==
    [med EXCEPT !._id = OidStr(@),
                !.whenHandedOver = IsoFormat(@),
                !.createdAt = IsoFormat(@),
                !.updatedAt = IsoFormat(@)]

\* Mutant: no existence check, an unknown patient gets an empty list.
Getpatientsmedicationss_NoCheck(pats, meds, id) ==
    { [status |-> "success",
       value  |-> [kind |-> "list",
                   list |-> [i \in 1..Len(srt) |-> ForResponse(srt[i])]]] :
      srt \in SortWhenHandedOver(FindBySubject(meds, SubjectReference(id))) }

\* The set of results the call can return (one per order of equal keys).
Getpatientsmedicationss(pats, meds, id) ==
    IF GetpatientsById(pats, id).status # "success"
    THEN { [status |-> "patientsNotFound", value |-> None] }
    ELSE { [status |-> "success",
            value  |-> [kind |-> "list",
                        list |-> [i \in 1..Len(srt) |-> ForResponse(srt[i])]]] :
           srt \in SortWhenHandedOver(FindBySubject(meds, SubjectReference(id))) }

\* insert_one: the driver gives a document without _id a fresh ObjectId,
\* unique across collections; the first hex digit tells the collections apart.
NewPatientOid(pats) == PatientOid(Len(pats) + 1)
NewDispenseOid(meds) == Pow(16, OidLen - 1) + Len(meds) + 1

\* ------------------------------------------------------------- state
\* A worker that is serving no registration.
Idle == [pc |-> "idle", id |-> <<>>, data |-> None, patient |-> None,
         status |-> "", value |-> None, peers |-> {}]

Init ==
    /\ patients = <<>>
    /\ medications = <<>>
    /\ now = 0
    /\ last = [op |-> "init", arg |-> None, status |-> "", value |-> None, http |-> 0]
    /\ inflight = [w \in Workers |-> Idle]

\* datetime.now() in the two writers: now is the clock's last reading; the
\* next reading is the same tick or a later one.
ClockReads == { t \in now..(now + 1) : t <= MaxTime }

\* ---------------------------------------------------- repository actions
\* Each action is one call of a repository function; its inputs are drawn
\* from the set the specification hands it.
DoGetpatientsById(ids) ==
    \E id \in ids :
        LET r == GetpatientsById(patients, id)
        IN  /\ last' = [op |-> "GetpatientsById", arg |-> [id |-> id],
                        status |-> r.status, value |-> r.value, http |-> 0]
            /\ UNCHANGED <<patients, medications, now, inflight>>

DoWritepatients(payloads) ==
    \E data \in payloads, t \in ClockReads :
        LET r == Writepatients(patients, NewPatientOid(patients), t, data)
        IN  /\ Len(r.patients) <= MaxPatients
            /\ patients' = r.patients
            /\ last' = [op |-> "Writepatients", arg |-> [data |-> data],
                        status |-> r.status, value |-> r.value, http |-> 0]
            /\ now' = IF r.status = "success" THEN t ELSE now
            /\ UNCHANGED <<medications, inflight>>

DoGetpatientsByIdentifier ==
    \E sys \in Systems, val \in Values :
        LET r == GetpatientsByIdentifier(patients, sys, val)
        IN  /\ last' = [op |-> "GetpatientsByIdentifier", arg |-> [system |-> sys, value |-> val],
                        status |-> r.status, value |-> r.value, http |-> 0]
            /\ UNCHANGED <<patients, medications, now, inflight>>

DoRegistermedicationsDispense(ids, payloads, cap) ==
    \E id \in ids, data \in payloads, t \in ClockReads :
        LET r == RegistermedicationsDispense(patients, medications, NewDispenseOid(medications), t, id, data)
        IN  /\ Len(r.medications) <= cap
            /\ medications' = r.medications
            /\ last' = [op |-> "RegistermedicationsDispense", arg |-> [id |-> id, data |-> data],
                        status |-> r.status, value |-> r.value, http |-> 0]
            /\ now' = IF r.status = "success" THEN t ELSE now
            /\ UNCHANGED <<patients, inflight>>

DoGetpatientsmedicationss(ids) ==
    \E id \in ids :
        \E r \in Getpatientsmedicationss(patients, medications, id) :
            /\ last' = [op |-> "Getpatientsmedicationss", arg |-> [id |-> id],
                        status |-> r.status, value |-> r.value, http |-> 0]
            /\ UNCHANGED <<patients, medications, now, inflight>>

\* The patient repository: create, fetch by id, fetch by identifier.
NextPatients ==
    \/ DoWritepatients(PatientPayloads)
    \/ DoGetpatientsById(IdInputs)
    \/ DoGetpatientsByIdentifier

SpecPatients == Init /\ [][NextPatients]_vars

\* The medication repository over patients registered with one payload.
NextDispense ==
    \/ DoWritepatients(DispensePatientPayloads)
    \/ DoRegistermedicationsDispense(IdInputs, {FullMedPayload}, MaxMeds)
    \/ DoGetpatientsmedicationss(IdInputs)

SpecDispense == Init /\ [][NextDispense]_vars

\* Registration over payloads that lack a field or carry an ill-typed one.
NextValidation ==
    \/ DoWritepatients(DispensePatientPayloads)
    \/ DoRegistermedicationsDispense(IdInputs, MedPayloads, MaxValidated)

SpecValidation == Init /\ [][NextValidation]_vars

\* ------------------------------------------------------------- app.py
\* The routes import GetPatientById, WritePatient, GetPatientByIdentifier,
\* RegisterMedicationDispense and GetPatientMedications (lines 3-9); they are
\* bound here to the five functions PatientCrud.py defines.

HTTP_200_OK == 200
HTTP_201_CREATED == 201
HTTP_400_BAD_REQUEST == 400
HTTP_404_NOT_FOUND == 404
HTTP_422_UNPROCESSABLE_ENTITY == 422
HTTP_500_INTERNAL_SERVER_ERROR == 500

\* What a handler's name `status` is bound to.  Each handler assigns
\* `status, x = <repository call>`, which makes `status` a local: inside the
\* handler it is the repository's status string, never the fastapi module.
FastapiStatusModule == "<module fastapi.status>"

Response(code, body) == [http |-> code, body |-> body]

\* An exception no handler catches: the server answers 500.
Unhandled == Response(HTTP_500_INTERNAL_SERVER_ERROR, [kind |-> "Internal Server Error"])

\* raise HTTPException(status_code=status.HTTP_..., detail=...): the
\* attribute exists on the module only; on a str it raises AttributeError.
RaiseWithStatusAttr(st, code) ==
    IF st = FastapiStatusModule
    THEN [raised |-> "HTTPException", response |-> Response(code, [kind |-> "detail"])]
    ELSE [raised |-> "AttributeError", response |-> Unhandled]

\* raise HTTPException(status_code=404, ...): a literal code.
RaiseLiteral(code) ==
    [raised |-> "HTTPException", response |-> Response(code, [kind |-> "detail"])]

Return(code, body) == [raised |-> "", response |-> Response(code, body)]

\* 'errorValidating' in status
ContainsErrorValidating(st) == st = "errorValidating: ValidationError"

get_patient_by_id(pats, id) ==
    LET r == GetpatientsById(pats, id)
        out == IF r.status = "success" THEN Return(HTTP_200_OK, r.value)
               ELSE IF r.status = "notFound"
               THEN RaiseWithStatusAttr(r.status, HTTP_404_NOT_FOUND)
               ELSE RaiseWithStatusAttr(r.status, HTTP_500_INTERNAL_SERVER_ERROR)
    IN  [status |-> r.status, response |-> out.response]

get_patient_by_identifier(pats, sys, val) ==
    LET r == GetpatientsByIdentifier(pats, sys, val)
        out == IF r.status = "success" THEN Return(HTTP_200_OK, r.value)
               ELSE IF r.status = "notFound" THEN RaiseLiteral(HTTP_404_NOT_FOUND)
               ELSE RaiseLiteral(HTTP_500_INTERNAL_SERVER_ERROR)
    IN  [status |-> r.status, response |-> out.response]

\* The try block of lines 95-109, then the except clause of lines 110-114,
\* which catches whatever the block raised (HTTPException included).
add_patient(pats, oid, t, body) ==
    LET r == Writepatients(pats, oid, t, body)
        tried == IF r.status = "success" THEN Return(HTTP_201_CREATED, r.value)
                 ELSE IF ContainsErrorValidating(r.status)
                 THEN RaiseWithStatusAttr(r.status, HTTP_422_UNPROCESSABLE_ENTITY)
                 ELSE RaiseWithStatusAttr(r.status, HTTP_500_INTERNAL_SERVER_ERROR)
        out == IF tried.raised = "" THEN tried
               ELSE RaiseWithStatusAttr(r.status, HTTP_400_BAD_REQUEST)
    IN  [status |-> r.status, response |-> out.response, patients |-> r.patients]

\* MedicationDispenseCreate (lines 33-40): the fields without a default.
PydanticValid(body) ==
    {"medication", "quantity", "daysSupply", "dosage", "performer"} \subseteq DOMAIN body
      /\ IsNumeric(body.quantity) /\ IsNumeric(body.daysSupply)

\* medication.dict(), then the timestamp of lines 132-133.
MedicationDict(body, t) ==
    [medication |-> body.medication,
     quantity   |-> body.quantity,
     daysSupply |-> body.daysSupply,
     dosage     |-> body.dosage,
     performer  |-> body.performer,
     notes      |-> Get(body, "notes", "None"),
     timestamp  |-> Get(body, "timestamp", IsoFormat(t))]

add_medication_dispense(pats, meds, oid, t, id, body) ==
    IF ~PydanticValid(body)
    THEN [status |-> "", medications |-> meds,
          response |-> Response(HTTP_422_UNPROCESSABLE_ENTITY, [kind |-> "detail"])]
    ELSE LET r == RegistermedicationsDispense(pats, meds, oid, t, id, MedicationDict(body, t))
             out == IF r.status = "success"
                    THEN Return(HTTP_201_CREATED,
                                [kind |-> "dispensed", medication_id |-> r.value.id, patient_id |-> id])
                    ELSE IF r.status = "patientNotFound"
                    THEN RaiseWithStatusAttr(r.status, HTTP_404_NOT_FOUND)
                    ELSE RaiseWithStatusAttr(r.status, HTTP_500_INTERNAL_SERVER_ERROR)
         IN  [status |-> r.status, response |-> out.response, medications |-> r.medications]

\* The set of answers (one per order the listing can return).
get_patient_medications(pats, meds, id) ==
    { LET out == IF r.status = "success" THEN Return(HTTP_200_OK, r.value)
                 ELSE IF r.status = "patientNotFound"
                 THEN RaiseWithStatusAttr(r.status, HTTP_404_NOT_FOUND)
                 ELSE RaiseWithStatusAttr(r.status, HTTP_500_INTERNAL_SERVER_ERROR)
      IN  [status |-> r.status, response |-> out.response] :
      r \in Getpatientsmedicationss(pats, meds, id) }

\* ---------------------------------------------------------- route actions
DoGetPatientById ==
    \E id \in IdInputs :
        LET r == get_patient_by_id(patients, id)
        IN  /\ last' = [op |-> "get_patient_by_id", arg |-> [id |-> id],
                        status |-> r.status, value |-> r.response.body, http |-> r.response.http]
            /\ UNCHANGED <<patients, medications, now, inflight>>

DoGetPatientByIdentifier ==
    \E sys \in Systems, val \in Values :
        LET r == get_patient_by_identifier(patients, sys, val)
        IN  /\ last' = [op |-> "get_patient_by_identifier", arg |-> [system |-> sys, value |-> val],
                        status |-> r.status, value |-> r.response.body, http |-> r.response.http]
            /\ UNCHANGED <<patients, medications, now, inflight>>

DoAddPatient ==
    \E body \in ApiPatientBodies, t \in ClockReads :
        LET r == add_patient(patients, NewPatientOid(patients), t, body)
        IN  /\ Len(r.patients) <= MaxPatients
            /\ patients' = r.patients
            /\ last' = [op |-> "add_patient", arg |-> [data |-> body],
                        status |-> r.status, value |-> r.response.body, http |-> r.response.http]
            /\ now' = IF r.status = "success" THEN t ELSE now
            /\ UNCHANGED <<medications, inflight>>

DoAddMedicationDispense ==
    \E id \in IdInputs, body \in ApiMedBodies, t \in ClockReads :
        LET r == add_medication_dispense(patients, medications, NewDispenseOid(medications), t, id, body)
        IN  /\ Len(r.medications) <= MaxApiMeds
            /\ medications' = r.medications
            /\ last' = [op |-> "add_medication_dispense", arg |-> [id |-> id, data |-> body],
                        status |-> r.status, value |-> r.response.body, http |-> r.response.http]
            /\ now' = IF r.status = "success" THEN t ELSE now
            /\ UNCHANGED <<patients, inflight>>

DoGetPatientMedications ==
    \E id \in IdInputs :
        \E r \in get_patient_medications(patients, medications, id) :
            /\ last' = [op |-> "get_patient_medications", arg |-> [id |-> id],
                        status |-> r.status, value |-> r.response.body, http |-> r.response.http]
            /\ UNCHANGED <<patients, medications, now, inflight>>

\* The HTTP surface: every request goes through a route handler.
NextApi ==
    \/ DoGetPatientById
    \/ DoGetPatientByIdentifier
    \/ DoAddPatient
    \/ DoAddMedicationDispense
    \/ DoGetPatientMedications

SpecApi == Init /\ [][NextApi]_vars

\* ------------------------------------------- concurrent registrations
\* uvicorn runs the application in several worker processes over one
\* database, so calls of RegistermedicationsDispense interleave at its two
\* store operations: the find_one of the existence check (line 63) and the
\* insert_one (line 122).  inflight[w] is the call worker w is serving, with
\* its arguments and, once it is done, its result (last keeps the result of
\* the calls that run in one step);
\* peers records the workers whose call for the same patient was between
\* its check and its insert at the same time.

\* Lines 62-66: the existence check.
RegisterCheck(w, ids, payloads, cap) ==
    /\ inflight[w].pc = "idle"
    /\ Len(medications) + Cardinality({ v \in Workers : inflight[v].pc = "checked" }) < cap
    /\ \E id \in ids, data \in payloads :
          LET found == GetpatientsById(patients, id)
              peers == { v \in Workers \ {w} :
                           inflight[v].pc = "checked" /\ inflight[v].id = id }
          IN  IF found.status # "success"
              THEN inflight' = [inflight EXCEPT ![w] =
                          [Idle EXCEPT !.pc = "done", !.id = id, !.data = data,
                                       !.status = "patientsNotFound"]]
              ELSE inflight' = [v \in Workers |->
                          IF v = w
                          THEN [Idle EXCEPT !.pc = "checked", !.id = id, !.data = data,
                                            !.patient = found.value.doc, !.peers = peers]
                          ELSE IF v \in peers
                          THEN [inflight[v] EXCEPT !.peers = @ \cup {w}]
                          ELSE inflight[v]]
    /\ UNCHANGED <<patients, medications, now, last>>

\* Lines 68-125: build, validate and insert with the patient found earlier.
RegisterInsert(w) ==
    /\ inflight[w].pc = "checked"
    /\ \E t \in ClockReads :
          LET r == RegisterFor(inflight[w].patient, medications, NewDispenseOid(medications),
                               t, inflight[w].id, inflight[w].data)
          IN  /\ medications' = r.medications
              /\ inflight' = [inflight EXCEPT ![w].pc = "done", ![w].status = r.status,
                                              ![w].value = r.value]
              /\ now' = IF r.status = "success" THEN t ELSE now
    /\ UNCHANGED <<patients, last>>

\* The call returns and the worker takes the next request.
RegisterReturn(w) ==
    /\ inflight[w].pc = "done"
    /\ inflight' = [v \in Workers |->
            IF v = w THEN Idle ELSE [inflight[v] EXCEPT !.peers = @ \ {w}]]
    /\ UNCHANGED <<patients, medications, now, last>>

\* The id of the first patient and an id no patient has.
ConcurrentIds == { OidStr(PatientOid(1)), OidStr(PatientOid(MaxPatients + 1)) }

NextConcurrent ==
    \/ DoWritepatients(DispensePatientPayloads)
    \/ \E w \in Workers :
          RegisterCheck(w, ConcurrentIds, {FullMedPayload, OtherMedPayload}, MaxConcurrentMeds)
    \/ \E w \in Workers : RegisterInsert(w)
    \/ \E w \in Workers : RegisterReturn(w)

SpecConcurrent == Init /\ [][NextConcurrent]_vars

\* The five repository functions together, over the id of the first
\* patient, an id no patient has and a malformed id; two valid patients with
\* one document number and an ill-typed one; a complete dispense payload and
\* one with an ill-typed quantity.
RepositoryIds ==
    { OidStr(PatientOid(1)), OidStr(PatientOid(MaxPatients + 1)),
      [i \in 1..OidLen |-> NonHexChar] }

RepositoryPatientPayloads == { data \in PatientPayloads : data.name # <<>> }

RepositoryMedPayloads == { data \in MedPayloads : "dosage" \in DOMAIN data }

NextRepository ==
    \/ DoGetpatientsById(RepositoryIds)
    \/ DoWritepatients(RepositoryPatientPayloads)
    \/ DoGetpatientsByIdentifier
    \/ DoRegistermedicationsDispense(RepositoryIds, RepositoryMedPayloads, MaxValidated)
    \/ DoGetpatientsmedicationss(RepositoryIds)

SpecRepository == Init /\ [][NextRepository]_vars

\* Registration and listing with ids typed in either case.
NextReference ==
    \/ DoWritepatients(DispensePatientPayloads)
    \/ DoRegistermedicationsDispense(CaseIdInputs, {FullMedPayload}, MaxApiMeds)
    \/ DoGetpatientsmedicationss(CaseIdInputs)

SpecReference == Init /\ [][NextReference]_vars

\* Registration over payloads that lack a required field.
NextRequired ==
    \/ DoWritepatients(DispensePatientPayloads)
    \/ DoRegistermedicationsDispense(IdInputs, RequiredFieldPayloads, MaxValidated)

SpecRequired == Init /\ [][NextRequired]_vars

\* Creation over payloads that lack the identifier or the name.
IncompletePatientPayloads ==
    { data \in PatientPayloads \cup IdentifierPayloads :
        data.wellTyped /\ (data.identifier = <<>> \/ data.name = <<>>) }

NextIncomplete ==
    \/ DoWritepatients(DispensePatientPayloads \cup IncompletePatientPayloads)
    \/ DoGetpatientsById(RepositoryIds)
    \/ DoGetpatientsByIdentifier

SpecIncomplete == Init /\ [][NextIncomplete]_vars

\* Registration over payloads that name a status of their own, and the
\* listing.
StatusMedPayloads ==
    { FullMedPayload,
      [medications |-> "amox", quantity |-> Num(2), daysSupply |-> Num(5), dosage |-> "1/day",
       status |-> "cancelled"] }

NextStatus ==
    \/ DoWritepatients(DispensePatientPayloads)
    \/ DoRegistermedicationsDispense(RepositoryIds, StatusMedPayloads, MaxApiMeds)
    \/ DoGetpatientsmedicationss(RepositoryIds)

SpecStatus == Init /\ [][NextStatus]_vars

\* Lookup by identifier, in the repository and behind GET /patient.
NextIdentifier ==
    \/ DoWritepatients(IdentifierPayloads)
    \/ DoGetpatientsByIdentifier
    \/ DoGetPatientByIdentifier

SpecIdentifier == Init /\ [][NextIdentifier]_vars

\* ------------------------------------------------------------- claims
\* The id strings of the stored patients.
StoredPatientIds == { OidStr(patients[i]._id) : i \in DOMAIN patients }

SharesIdentifier(doc, data) ==
    \E k \in DOMAIN data.identifier :
        ElemMatch(doc, data.identifier[k].system, data.identifier[k].value)

\* C1: createPatient is idempotent per document number: no two stored
\* patients carry the same identifier (system, value), and a successful
\* createPatient returns the id of the first stored patient that carries the
\* payload's identifier.
C1_Original ==
    /\ \A i, j \in DOMAIN patients :
          i # j => ~SharesIdentifier(patients[i], patients[j])
    /\ (last.op = "Writepatients" /\ last.status = "success")
          => \A k \in DOMAIN last.arg.data.identifier :
                LET first == FindOneByIdentifier(patients,
                                 last.arg.data.identifier[k].system,
                                 last.arg.data.identifier[k].value)
                IN  last.value.id = OidStr(patients[first]._id)

\* C2: registerDispense for an id that is not the id of a stored patient
\* returns the patient-not-found status and leaves both collections as they
\* were.
C2_NotFoundWritesNothing ==
    [][ (last'.op = "RegistermedicationsDispense" /\ last'.arg.id \notin StoredPatientIds)
          => (/\ last'.status = "patientsNotFound"
              /\ last'.value = None
              /\ medications' = medications
              /\ patients' = patients) ]_vars

\* C2 witness: the call was refused, for a malformed id, on a store that
\* holds patients and dispenses.
C2_Witness ==
    /\ last.op = "RegistermedicationsDispense"
    /\ last.status = "patientsNotFound"
    /\ ~OidWellFormed(last.arg.id)
    /\ patients # <<>>
    /\ medications # <<>>

\* C3: registerDispense for an existing patient with a payload that has no
\* dosage does not succeed (it fails with a validation error and writes
\* nothing).
C3_Original ==
    (/\ last.op = "RegistermedicationsDispense"
     /\ last.arg.id \in StoredPatientIds
     /\ "dosage" \notin DOMAIN last.arg.data)
        => (last.status # "success"
            /\ \A i \in DOMAIN medications :
                  medications[i].dosageInstruction.text # "As prescribed")

\* The times of a patient's dispenses, in the order of the calls, grow strictly.
StrictlyIncreasing(regs) ==
    \A i, j \in DOMAIN regs : i < j => regs[i].whenHandedOver < regs[j].whenHandedOver

\* C4: when the successful registerDispense calls for a patient were made at
\* strictly increasing times, the listing returns exactly these records, the
\* latest first, with strictly descending timestamps, whatever was dispensed
\* to other patients in between.
C4_DescendingOrder ==
    (last.op = "Getpatientsmedicationss" /\ last.status = "success")
        => LET regs == FindBySubject(medications, SubjectReference(last.arg.id))
               n    == Len(regs)
               out  == last.value.list
           IN  StrictlyIncreasing(regs)
                 => /\ Len(out) = n
                    /\ \A i \in 1..n : out[i]._id = OidStr(regs[n + 1 - i]._id)
                    /\ \A i \in 1..n : out[i].whenHandedOver = IsoFormat(regs[n + 1 - i].whenHandedOver)
                    /\ \A i, j \in 1..n :
                          i < j => FromIsoFormat(out[i].whenHandedOver)
                                      > FromIsoFormat(out[j].whenHandedOver)

\* C4 witness: a listing of two dispenses of one patient, made at different
\* times, with a dispense for another patient registered between them.
C4_Witness ==
    /\ last.op = "Getpatientsmedicationss"
    /\ last.status = "success"
    /\ Len(last.value.list) = 2
    /\ Len(medications) = 3
    /\ medications[1].subject.reference = SubjectReference(last.arg.id)
    /\ medications[2].subject.reference # SubjectReference(last.arg.id)
    /\ medications[3].subject.reference = SubjectReference(last.arg.id)
    /\ medications[1].whenHandedOver < medications[3].whenHandedOver

\* C5: after a successful createPatient(P) with id i, getPatientById(i)
\* succeeds with a record whose identifier and name are those of P, whose id
\* is i, and whose only other fields are createdAt and updatedAt.
C5_RoundTrip ==
    (last.op = "Writepatients" /\ last.status = "success")
        => LET got == GetpatientsById(patients, last.value.id)
           IN  /\ got.status = "success"
               /\ got.value.doc._id = last.value.id
               /\ got.value.doc.identifier = last.arg.data.identifier
               /\ got.value.doc.name = last.arg.data.name
               /\ DOMAIN got.value.doc
                    = {"_id", "identifier", "name", "createdAt", "updatedAt"}

\* C5 witness: the second patient was created, with the document number of
\* the first and another name.
C5_Witness ==
    /\ last.op = "Writepatients"
    /\ last.status = "success"
    /\ Len(patients) = 2
    /\ last.arg.data.name # <<>>
    /\ patients[1].name # last.arg.data.name
    /\ patients[1].identifier = last.arg.data.identifier

\* C6: getPatientById on a well-formed id that no stored patient has returns
\* "notFound" with no record, and a record it returns has the id asked for.
C6_NotFound ==
    last.op = "GetpatientsById"
        => /\ (OidWellFormed(last.arg.id) /\ last.arg.id \notin StoredPatientIds)
                => (last.status = "notFound" /\ last.value = None)
           /\ last.status = "success"
                => ObjectId(last.value.doc._id) = ObjectId(last.arg.id)

\* C6 witness: the fetch missed on a store that holds other patients.
C6_Witness ==
    /\ last.op = "GetpatientsById"
    /\ last.status = "notFound"
    /\ Len(patients) = MaxPatients

\* C7: listDispensesForPatient for an id that is not a stored patient fails
\* with the patient-not-found status and no list; for a stored patient without
\* dispenses it succeeds with the empty list.
C7_ExistenceFirst ==
    last.op = "Getpatientsmedicationss"
        => /\ last.arg.id \notin StoredPatientIds
                => (last.status = "patientsNotFound" /\ last.value = None)
           /\ (/\ last.arg.id \in StoredPatientIds
               /\ FindBySubject(medications, SubjectReference(last.arg.id)) = <<>>)
                => (last.status = "success" /\ last.value = [kind |-> "list", list |-> <<>>])

\* C7 witness: the listing was refused for an unknown, well-formed id while
\* the store holds dispenses of another patient.
C7_Witness ==
    /\ last.op = "Getpatientsmedicationss"
    /\ last.status = "patientsNotFound"
    /\ OidWellFormed(last.arg.id)
    /\ medications # <<>>

\* C8: POST /patient answers 201 with the new id for a valid payload and 422
\* when the repository reports a validation failure.
C8_Original ==
    last.op = "add_patient"
        => /\ last.status = "success"
                => (last.http = HTTP_201_CREATED /\ last.value.kind = "id")
           /\ ContainsErrorValidating(last.status)
                => last.http = HTTP_422_UNPROCESSABLE_ENTITY

\* C9: POST /patient/{id}/medications answers 404 when no stored patient has
\* the id.
C9_Original ==
    (/\ last.op = "add_medication_dispense"
     /\ last.status # ""
     /\ last.arg.id \notin StoredPatientIds)
        => last.http = HTTP_404_NOT_FOUND

\* C10: GET /patient/{id}/medications answers 200 with the list when the
\* patient exists and 404 when it does not.
C10_Original ==
    last.op = "get_patient_medications"
        => /\ last.arg.id \in StoredPatientIds
                => (last.http = HTTP_200_OK /\ last.value.kind = "list")
           /\ last.arg.id \notin StoredPatientIds
                => last.http = HTTP_404_NOT_FOUND

\* C11: GET /patient/{id} answers 200 with the patient on 'success', 404 on
\* 'notFound' and 500 on every other status of the repository.
C11_Original ==
    last.op = "get_patient_by_id"
        => /\ last.status = "success"
                => (last.http = HTTP_200_OK /\ last.value.kind = "doc")
           /\ last.status = "notFound" => last.http = HTTP_404_NOT_FOUND
           /\ last.status \notin {"success", "notFound"}
                => last.http = HTTP_500_INTERNAL_SERVER_ERROR

\* The stored patients that have one identifier element with this system
\* and this value.
HoldersOf(sys, val) ==
    { i \in DOMAIN patients :
        \E k \in DOMAIN patients[i].identifier :
            patients[i].identifier[k] = [system |-> sys, value |-> val] }

\* C12: getPatientByIdentifier(system, value) succeeds only with a stored
\* patient one of whose identifier elements has this system and this value;
\* when no stored patient has such an element it returns notFound (and GET
\* /patient answers 404), also when system and value match in different
\* elements or different patients.
C12_SingleElementMatch ==
    last.op \in {"GetpatientsByIdentifier", "get_patient_by_identifier"}
        => LET holders == HoldersOf(last.arg.system, last.arg.value)
           IN  /\ holders = {}
                    => /\ last.status = "notFound"
                       /\ last.op = "GetpatientsByIdentifier" => last.value = None
                       /\ last.op = "get_patient_by_identifier" => last.http = HTTP_404_NOT_FOUND
               /\ last.status = "success"
                    => \E i \in holders : last.value.doc = WithStrId(patients[i])

\* C12 witness: the lookup missed although one stored patient has the system
\* in one identifier element and the value in another.
C12_Witness ==
    /\ last.op = "GetpatientsByIdentifier"
    /\ last.status = "notFound"
    /\ \E i \in DOMAIN patients :
          /\ \E k \in DOMAIN patients[i].identifier :
                patients[i].identifier[k].system = last.arg.system
          /\ \E k \in DOMAIN patients[i].identifier :
                patients[i].identifier[k].value = last.arg.value

\* s2 is s1 with one document appended.
GrewByOne(s1, s2) == Len(s2) = Len(s1) + 1 /\ SubSeq(s2, 1, Len(s1)) = s1

\* C13: a repository call that returns a status other than "success" leaves
\* both collections as they were; a successful createPatient appends one
\* document to patients and nothing to medications, a successful
\* registerDispense appends one document to medications and nothing to
\* patients.
C13_NoPartialFailure ==
    [][ /\ last'.status # "success"
            => (patients' = patients /\ medications' = medications)
        /\ (last'.op = "Writepatients" /\ last'.status = "success")
            => (GrewByOne(patients, patients') /\ medications' = medications)
        /\ (last'.op = "RegistermedicationsDispense" /\ last'.status = "success")
            => (GrewByOne(medications, medications') /\ patients' = patients) ]_vars

\* C13 witness: a registration for a stored patient failed (a quantity that
\* is no number) on a store that already holds a dispense.
C13_Witness ==
    /\ last.op = "RegistermedicationsDispense"
    /\ last.status = "error: ValueError"
    /\ last.arg.id \in StoredPatientIds
    /\ medications # <<>>

C15_ReferentialInvariant ==
    \A i \in DOMAIN medications :
        LET ref == medications[i].subject.reference
        IN  /\ Len(ref) = 2
            /\ ref[1] = "patients/"
            /\ OidWellFormed(ref[2])
            /\ \E j \in DOMAIN patients : patients[j]._id = ObjectId(ref[2])

\* C15 witness: a dispense is stored, one worker was turned away for a
\* patient that does not exist, another is between its check and its insert.
C15_Witness ==
    /\ medications # <<>>
    /\ \E w, v \in Workers :
          /\ inflight[w].pc = "done" /\ inflight[w].status = "patientsNotFound"
          /\ inflight[v].pc = "checked"

\* Two finished registrations for one patient, each of which passed its
\* existence check before the other had inserted.
Interleaved(w, v) ==
    /\ w # v
    /\ inflight[w].pc = "done" /\ inflight[v].pc = "done"
    /\ v \in inflight[w].peers /\ w \in inflight[v].peers

\* The stored dispenses that carry the id worker w returned and the
\* medication and dosage of its request, for the patient of its request.
RecordsOf(w) ==
    { i \in DOMAIN medications :
        /\ inflight[w].value # None
        /\ OidStr(medications[i]._id) = inflight[w].value.id
        /\ medications[i].subject.reference = SubjectReference(inflight[w].id)
        /\ medications[i].medicationsCodeableConcept.text = inflight[w].data.medications
        /\ medications[i].dosageInstruction.text = inflight[w].data.dosage }

\* C16: when two registrations for the same stored patient interleave
\* between check and insert, both return "success" with distinct ids, and
\* each id names exactly one stored dispense, which references the patient
\* and holds the fields of its own request.
C16_BenignRace ==
    \A w, v \in Workers :
        Interleaved(w, v)
            => /\ inflight[w].status = "success" /\ inflight[v].status = "success"
               /\ inflight[w].value.id # inflight[v].value.id
               /\ Cardinality(RecordsOf(w)) = 1
               /\ Cardinality(RecordsOf(v)) = 1
               /\ RecordsOf(w) # RecordsOf(v)

\* C16 witness: two interleaved registrations with different payloads have
\* both finished.
C16_Witness ==
    \E w, v \in Workers :
        /\ Interleaved(w, v)
        /\ inflight[w].data # inflight[v].data

\* C17: for every (system, value), at most one stored patient carries that
\* identifier.
C17_Original ==
    \A sys \in Systems, val \in Values : Cardinality(HoldersOf(sys, val)) <= 1

\* The ids of the stored dispenses registered for the patient that the id
\* string names: registration found the patient through ObjectId(id).
RegisteredFor(id) ==
    { OidStr(medications[i]._id) : i \in
        { k \in DOMAIN medications :
            ObjectId(medications[k].subject.reference[2]) = ObjectId(id) } }

\* C18: the listing for a stored patient succeeds and returns exactly the
\* dispenses registered for that patient.
C18_Original ==
    (/\ last.op = "Getpatientsmedicationss"
     /\ last.arg.id \in StoredPatientIds)
        => /\ last.status = "success"
           /\ { last.value.list[i]._id : i \in DOMAIN last.value.list }
                 = RegisteredFor(last.arg.id)

\* C19: the dispense stored by a successful POST /patient/{id}/medications
\* holds the request's medication, quantity, daysSupply and dosage.
C19_Original ==
    (last.op = "add_medication_dispense" /\ last.status = "success")
        => \E i \in DOMAIN medications :
              /\ OidStr(medications[i]._id) = last.value.medication_id
              /\ medications[i].medicationsCodeableConcept.text = last.arg.data.medication
              /\ medications[i].quantity.value = last.arg.data.quantity.num
              /\ medications[i].daysSupply.value = last.arg.data.daysSupply.num
              /\ medications[i].dosageInstruction.text = last.arg.data.dosage

\* The description, quantity and days' supply a dispense payload must carry.
HasRequiredFields(data) ==
    /\ ("medications" \in DOMAIN data \/ "medication" \in DOMAIN data)
    /\ "quantity" \in DOMAIN data
    /\ "daysSupply" \in DOMAIN data

\* C20: a registration for a stored patient whose payload lacks the
\* medication, the quantity or the daysSupply is rejected with a
\* ValidationError and returns no dispense id (a call that does not succeed
\* stores nothing, C13).
C20_Original ==
    (/\ last.op = "RegistermedicationsDispense"
     /\ last.arg.id \in StoredPatientIds
     /\ ~HasRequiredFields(last.arg.data))
        => (last.status = "error: ValidationError" /\ last.value = None)

\* C21: a createPatient payload without identifier or without name is
\* rejected with a ValidationError, and every stored patient has at least one
\* identifier and a name.
C21_Original ==
    /\ \A i \in DOMAIN patients :
          patients[i].identifier # <<>> /\ patients[i].name # <<>>
    /\ (/\ last.op = "Writepatients"
        /\ (last.arg.data.identifier = <<>> \/ last.arg.data.name = <<>>))
          => (last.status = "errorValidating: ValidationError" /\ last.value = None)

\* C22: every dispense a step stores or leaves stored has status
\* "completed", and no step changes the status of a stored dispense.
C22_AlwaysCompleted ==
    [][ /\ \A i \in DOMAIN medications' : medications'[i].status = "completed"
        /\ Len(medications') >= Len(medications)
        /\ \A i \in DOMAIN medications :
              medications'[i].status = medications[i].status ]_vars

\* C22 witness: a payload that names the status "cancelled" was registered
\* for a stored patient next to an earlier dispense.
C22_Witness ==
    /\ last.op = "RegistermedicationsDispense"
    /\ last.status = "success"
    /\ "status" \in DOMAIN last.arg.data
    /\ last.arg.data.status = "cancelled"
    /\ Len(medications) = 2

============================================================================
